---- MODULE Spec2Model ----
(***************************************************************************)
(* A model of evolve.py: the generational loop of simulate() over a        *)
(* fixed-size list of individuals, with its helpers initialize,            *)
(* parent_power, kill, pressure and print_living, and the script main      *)
(* that validates the two inputs.                                          *)
(*                                                                         *)
(* Powers and pressures are floats in the program.  Here they are exact    *)
(* integers in units of 1/Scale, the unit in which the pressure            *)
(* (gen + 5) * (0.8 + gen / 200) is an integer for every gen; the average  *)
(* sum / count is kept as the exact pair <<sum, count>>.  Random draws     *)
(* are nondeterministic choices.  Python's 0-based list index i is slot    *)
(* i + 1 of the sequence p.                                                *)
(***************************************************************************)
EXTENDS Integers, Sequences, FiniteSets, TLC

\* ------------------------------------------------------------------ bounds
MaxPop == 3
MaxGen == 3
MaxDraw == 2
MaxPressureGen == 120
MaxInitSize == 5

\* ------------------------------------------------------- program constants
Scale == 200
MinPop == 10
MaxPopMessage == 100000
MinGenerations == 51
\* The least number of living individuals with which a generation is run.
MinLiving == 2

\* The least population in which more slots can be Dead than the 2 * count
\* children of a generation fill, and the budget that reaches its respawn
\* (generation 0 kills, generation 1 respawns).
QuotaPop == 3 * MinLiving + 1
QuotaBudget == 1 + 1

\* The <<pop, generations>> simulate() is run with.
SmallRuns == (MinLiving..MaxPop) \X (1..MaxGen)
Runs == SmallRuns \cup {<<QuotaPop, QuotaBudget>>}

\* The values a power may take (in 1/Scale): a finite grid of the floats.
PowerGrid == {0, 900}
\* R.triangular(0, 5) lies in [0, 5].
InitPowers == {s \in PowerGrid : 0 <= s /\ s <= 5 * Scale}
\* The position of the first draw of R.random() that exceeds 0.6 in the
\* stream one call of kill reads; 0 when there is none among the first MaxDraw.
Draws == 0..MaxDraw

VARIABLES
    mpc,          \* the position in the script main
    maxpop,       \* int(input(...)) of the population size
    maxgen,       \* int(input(...)) of the number of generations
    exitcode,     \* the argument of exit (0: the script has not exited)
    pop,          \* simulate's argument pop
    generations,  \* simulate's argument generations
    p,            \* the list of individuals
    n,            \* the next id
    gen,          \* the loop variable of simulate (-1: not yet bound)
    pc,           \* the position in simulate
    i,            \* the index of the loop being run
    avg,          \* <<sum, count>>, the average power sum / count
    count,        \* the number of living individuals
    strong, sid, old, oid,   \* what print_living returned
    mut,          \* <<num, den>>, the mutation spread num / den (in 1/Scale)
    new,          \* the children still allowed this generation
    children,     \* the number of new children printed
    env,          \* the pressure that pressure() returned
    fittest, fitid, old_env, oldest, oldid, oldgen,  \* the overall stats
    stats,        \* what print_stats printed (<<>> before)
    created,      \* history: the ids handed out, in creation order
    birth,        \* history: the value of gen when each id was handed out
    spawned       \* history: the children written in this generation

mainvars == <<mpc, maxpop, maxgen, exitcode>>

vars == <<mpc, maxpop, maxgen, exitcode, pop, generations, p, n, gen, pc, i,
          avg, count, strong, sid, old, oid, mut, new, children, env, fittest,
          fitid, old_env, oldest, oldid, oldgen, stats, created,
                   birth, spawned>>

\* ----------------------------------------------------------------- helpers
\* The record with the id taken after n += 1.
Individual_late_id(s, id) == [s |-> s, l |-> "Alive", id |-> id + 1, a |-> 0]

\* The record of a new individual: power, life status, id, age.
Individual(s, id) == [s |-> s, l |-> "Alive", id |-> id, a |-> 0]

\* parent_power: the sum and the count of the living, then sum / count.
RECURSIVE power_sum(_, _)
power_sum(q, k) ==
    IF k = 0 THEN 0
    ELSE power_sum(q, k - 1) + (IF q[k].l = "Alive" THEN q[k].s ELSE 0)

RECURSIVE power_count(_, _)
power_count(q, k) ==
    IF k = 0 THEN 0
    ELSE power_count(q, k - 1) + (IF q[k].l = "Alive" THEN 1 ELSE 0)

parent_power(q, size) ==
    IF power_count(q, size) = 0 THEN <<<<0, 1>>, 0>>
    ELSE <<<<power_sum(q, size), power_count(q, size)>>, power_count(q, size)>>

\* avg == 0, for the exact quotient avg[1] / avg[2].
IsZero(x) == x[1] = 0

\* The test without its count == 1 half.
extinct_no_single(x, c) == IsZero(x)

\* The test without its avg == 0 half.
extinct_no_zero(x, c) == c = 1

\* The test that ends the simulation.
extinct(x, c) == IsZero(x) \/ c = 1

\* kill: the loop over range(0, int(f) ** 2), reading draw j + 1 in round j.
RECURSIVE kill_loop(_, _, _)
kill_loop(j, trials, k) ==
    IF j >= trials THEN "False"
    ELSE IF j + 1 = k THEN "True"
    ELSE kill_loop(j + 1, trials, k)

trials(f) == (f \div Scale) * (f \div Scale)

\* kill with its loop over range(1, int(f) ** 2).
kill_skip_first(f, k) ==
    IF f > 0 THEN kill_loop(1, trials(f), k) ELSE "None"

\* kill with the missing fitness rounded up instead of cut.
kill_ceil(f, k) ==
    IF f > 0 THEN kill_loop(0, trials(f + Scale - 1), k) ELSE "None"

kill(f, k) == IF f > 0 THEN kill_loop(0, trials(f), k) ELSE "None"

Truthy(v) == v = "True"

\* The pressure with gen / 200 subtracted.
pressure_falling(g) == (g + 5) * (160 - g)

\* (gen + 5) * (0.8 + gen / 200), in 1/Scale.
pressure_of(g) == (g + 5) * (160 + g)

\* The strongest of the living with sid never reassigned.
RECURSIVE living_strong_stale_id(_, _)
living_strong_stale_id(q, k) ==
    IF k = 0 THEN <<0, 0>>
    ELSE LET r == living_strong_stale_id(q, k - 1) IN
         IF q[k].l = "Alive" /\ r[1] < q[k].s THEN <<q[k].s, r[2]>> ELSE r

\* print_living: the strongest and the oldest of the living.
RECURSIVE living_strong(_, _)
living_strong(q, k) ==
    IF k = 0 THEN <<0, 0>>
    ELSE LET r == living_strong(q, k - 1) IN
         IF q[k].l = "Alive" /\ r[1] < q[k].s THEN <<q[k].s, q[k].id>> ELSE r

RECURSIVE living_old(_, _)
living_old(q, k) ==
    IF k = 0 THEN <<1, 0>>
    ELSE LET r == living_old(q, k - 1) IN
         IF q[k].l = "Alive" /\ r[1] < q[k].a THEN <<q[k].a, q[k].id>> ELSE r

\* (gen / 100) + 3 + (6 / count) ** 2 in 1/Scale, as num / den.
mutation(g, c) == <<(2 * g + 3 * Scale) * c * c + 36 * Scale, c * c>>

\* avg + R.uniform(-mut, mut) can give s: |s - avg| <= mut.
Abs(x) == IF x < 0 THEN -x ELSE x
InSpread(s, x, m) == Abs(s * x[2] - x[1]) * m[2] <= m[1] * x[2]

\* The child written over the slot's fields, the id of the slot kept.
spawn_reuse_id(q, k, v) == [q EXCEPT ![k] = [v EXCEPT !.id = q[k].id]]

\* The child appended to the list instead.
spawn_append(q, k, v) == Append(q, v)

\* The write of a child into slot k of the list.
spawn(q, k, v) == [q EXCEPT ![k] = v]

\* The id left as it is.
next_id_same(x) == x

\* n += 1 after a child is written.
next_id(x) == x + 1

\* One child for every survivor.
quota_single(c) == c

\* new = count * 2.
quota(c) == c * 2

\* The respawn loop without its break.
never_exhausted(x) == FALSE

\* if new == 0: break.
exhausted(x) == x = 0

\* for gen in range(0, generations): the value after g.
next_gen(g) == g + 1

\* A range that takes one value more.
in_range_inclusive(g, gens) == g <= gens

\* for gen in range(0, generations): g is a value of the range.
in_range(g, gens) == g < gens

\* A comparison that also takes an equal value.
higher_or_equal(x, y) == x >= y

\* if strong - env > fittest, if old > oldest.
higher(x, y) == x > y

\* What print_stats prints.
print_stats(g, nn, f, fi, oe, o, oi, og) ==
    [survived |-> g + 1, born |-> nn + 1, oldid |-> oi, oldest |-> o,
     from |-> og - o, to |-> og, fitid |-> fi, fittest |-> f, old_env |-> oe]

\* -------------------------------------------------------------------- Init
\* The locals of simulate before its first line.
Locals ==
    /\ p = <<>>
    /\ n = 0
    /\ gen = -1
    /\ i = 0
    /\ avg = <<0, 1>>
    /\ count = 0
    /\ strong = 0 /\ sid = 0 /\ old = 0 /\ oid = 0
    /\ mut = <<0, 1>>
    /\ new = 0
    /\ children = 0
    /\ env = 0
    /\ fittest = 0 /\ fitid = 0 /\ old_env = 0
    /\ oldest = 0 /\ oldid = 0 /\ oldgen = 0
    /\ stats = <<>>
    /\ created = <<>>
    /\ birth = <<>>
    /\ spawned = 0

\* The state of simulate(r[1], r[2]) at its first line, the script main being
\* inside the call.  The runs explored are smaller than the sizes the script
\* main lets through; simulate itself takes any.
InitOn(R) ==
    /\ \E r \in R : /\ pop = r[1] /\ generations = r[2]
                    /\ maxpop = r[1] /\ maxgen = r[2]
    /\ mpc = "simulate"
    /\ exitcode = 0
    /\ pc = "initialize"
    /\ Locals

Init == InitOn(Runs)

\* ----------------------------------------------------------------- actions
\* initialize: one round of its loop.
InitializeStep ==
    /\ pc = "initialize" /\ i < pop
    /\ \E s \in InitPowers :
        /\ p' = Append(p, Individual(s, n))
        /\ created' = Append(created, n)
        /\ birth' = Append(birth, gen)
    /\ n' = n + 1
    /\ i' = i + 1
    /\ UNCHANGED mainvars
    /\ UNCHANGED <<pop, generations, gen, pc, avg, count, strong, sid, old,
                   oid, mut, new, children, env, fittest, fitid, old_env,
                   oldest, oldid, oldgen, stats, spawned>>

\* initialize returns (p, n); simulate sets its stats and goes to its loop.
InitializeReturn ==
    /\ pc = "initialize" /\ i = pop
    /\ fittest' = 0 /\ fitid' = 0 /\ old_env' = 0
    /\ oldest' = 0 /\ oldid' = 0 /\ oldgen' = 0
    /\ pc' = "for"
    /\ UNCHANGED mainvars
    /\ UNCHANGED <<pop, generations, p, n, gen, i, avg, count, strong, sid,
                   old, oid, mut, new, children, env, stats, created,
                   birth, spawned>>

\* The loop takes its next generation; parent_power.
ForNext ==
    /\ pc = "for" /\ in_range(next_gen(gen), generations)
    /\ gen' = next_gen(gen)
    /\ avg' = parent_power(p, pop)[1]
    /\ count' = parent_power(p, pop)[2]
    /\ pc' = "check"
    /\ UNCHANGED mainvars
    /\ UNCHANGED <<pop, generations, p, n, i, strong, sid, old, oid, mut, new,
                   children, env, fittest, fitid, old_env, oldest, oldid,
                   oldgen, stats, created,
                   birth, spawned>>

\* The loop is exhausted: 'Population succeeded!' and the stats.
ForDone ==
    /\ pc = "for" /\ ~in_range(next_gen(gen), generations)
    /\ stats' = print_stats(gen, n, fittest, fitid, old_env, oldest, oldid, oldgen)
    /\ pc' = "completed"
    /\ UNCHANGED mainvars
    /\ UNCHANGED <<pop, generations, p, n, gen, i, avg, count, strong, sid,
                   old, oid, mut, new, children, env, fittest, fitid, old_env,
                   oldest, oldid, oldgen, created,
                   birth, spawned>>

\* if avg == 0 or count == 1: the stats, and return.
Extinct ==
    /\ pc = "check" /\ extinct(avg, count)
    /\ stats' = print_stats(gen, n, fittest, fitid, old_env, oldest, oldid, oldgen)
    /\ pc' = "extinct"
    /\ UNCHANGED mainvars
    /\ UNCHANGED <<pop, generations, p, n, gen, i, avg, count, strong, sid,
                   old, oid, mut, new, children, env, fittest, fitid, old_env,
                   oldest, oldid, oldgen, created,
                   birth, spawned>>

\* else: print_living.
PrintLiving ==
    /\ pc = "check" /\ ~extinct(avg, count)
    /\ strong' = living_strong(p, Len(p))[1]
    /\ sid' = living_strong(p, Len(p))[2]
    /\ old' = living_old(p, Len(p))[1]
    /\ oid' = living_old(p, Len(p))[2]
    /\ pc' = "mut"
    /\ UNCHANGED mainvars
    /\ UNCHANGED <<pop, generations, p, n, gen, i, avg, count, mut, new,
                   children, env, fittest, fitid, old_env, oldest, oldid,
                   oldgen, stats, created,
                   birth, spawned>>

\* mut = ..., new = count * 2; the division by count raises when count is 0.
Mutation ==
    /\ pc = "mut"
    /\ IF count = 0
       THEN pc' = "ZeroDivisionError" /\ UNCHANGED <<mut, new, i, spawned>>
       ELSE /\ mut' = mutation(gen, count)
            /\ new' = quota(count)
            /\ i' = 0
            /\ spawned' = 0
            /\ pc' = "reproduce"
    /\ UNCHANGED mainvars
    /\ UNCHANGED <<pop, generations, p, n, gen, avg, count, strong, sid, old,
                   oid, children, env, fittest, fitid, old_env, oldest, oldid,
                   oldgen, stats, created, birth>>

\* The respawn loop, a Dead slot: a child overwrites it.
ReproduceSpawn ==
    /\ pc = "reproduce" /\ i < pop /\ ~exhausted(new)
    /\ p[i + 1].l = "Dead"
    /\ \E s \in PowerGrid :
        /\ InSpread(s, avg, mut)
        /\ p' = spawn(p, i + 1, Individual(s, n))
    /\ created' = Append(created, n)
    /\ birth' = Append(birth, gen)
    /\ spawned' = spawned + 1
    /\ n' = next_id(n)
    /\ new' = new - 1
    /\ i' = i + 1
    /\ UNCHANGED mainvars
    /\ UNCHANGED <<pop, generations, gen, pc, avg, count, strong, sid, old,
                   oid, mut, children, env, fittest, fitid, old_env, oldest,
                   oldid, oldgen, stats>>

\* The respawn loop, a living slot: it ages.
ReproduceAge ==
    /\ pc = "reproduce" /\ i < pop /\ ~exhausted(new)
    /\ p[i + 1].l # "Dead"
    /\ p' = [p EXCEPT ![i + 1].a = @ + 1]
    /\ i' = i + 1
    /\ UNCHANGED mainvars
    /\ UNCHANGED <<pop, generations, n, gen, pc, avg, count, strong, sid, old,
                   oid, mut, new, children, env, fittest, fitid, old_env,
                   oldest, oldid, oldgen, stats, created,
                   birth, spawned>>

\* The respawn loop ends (break on new == 0, or the range is exhausted);
\* the children are printed and pressure() computes its pressure.
ReproduceEnd ==
    /\ pc = "reproduce" /\ (i >= pop \/ exhausted(new))
    /\ children' = (count * 2) - new
    /\ env' = pressure_of(gen)
    /\ i' = 0
    /\ pc' = "pressure"
    /\ UNCHANGED mainvars
    /\ UNCHANGED <<pop, generations, p, n, gen, avg, count, strong, sid, old,
                   oid, mut, new, fittest, fitid, old_env, oldest, oldid,
                   oldgen, stats, created,
                   birth, spawned>>

\* pressure: one round of its loop.
PressureStep ==
    /\ pc = "pressure" /\ i < pop
    /\ \E k \in Draws :
        p' = IF Truthy(kill(env - p[i + 1].s, k))
             THEN [p EXCEPT ![i + 1].l = "Dead"]
             ELSE p
    /\ i' = i + 1
    /\ UNCHANGED mainvars
    /\ UNCHANGED <<pop, generations, n, gen, pc, avg, count, strong, sid, old,
                   oid, mut, new, children, env, fittest, fitid, old_env,
                   oldest, oldid, oldgen, stats, created,
                   birth, spawned>>

\* pressure returns; the historic highest values are compared.
Record ==
    /\ pc = "pressure" /\ i = pop
    /\ IF higher(strong - env, fittest)
       THEN fittest' = strong - env /\ fitid' = sid /\ old_env' = env
       ELSE UNCHANGED <<fittest, fitid, old_env>>
    /\ IF higher(old, oldest)
       THEN oldest' = old /\ oldid' = oid /\ oldgen' = gen
       ELSE UNCHANGED <<oldest, oldid, oldgen>>
    /\ pc' = "for"
    /\ UNCHANGED mainvars
    /\ UNCHANGED <<pop, generations, p, n, gen, i, avg, count, strong, sid,
                   old, oid, mut, new, children, env, stats, created,
                   birth, spawned>>

Next ==
    \/ InitializeStep
    \/ InitializeReturn
    \/ ForNext
    \/ ForDone
    \/ Extinct
    \/ PrintLiving
    \/ Mutation
    \/ ReproduceSpawn
    \/ ReproduceAge
    \/ ReproduceEnd
    \/ PressureStep
    \/ Record

Spec == Init /\ [][Next]_vars

\* simulate is sequential code: it takes its next step as long as it has one.
LiveInit == InitOn(SmallRuns)
LiveSpec == LiveInit /\ [][Next]_vars /\ WF_vars(Next)

\* ------------------------------------------------------------ script main
\* A line typed at input(), as its characters.
Digit == {"0", "1", "2", "3", "4", "5", "6", "7", "8", "9"}
DigitValue(c) ==
    CASE c = "0" -> 0 [] c = "1" -> 1 [] c = "2" -> 2 [] c = "3" -> 3
      [] c = "4" -> 4 [] c = "5" -> 5 [] c = "6" -> 6 [] c = "7" -> 7
      [] c = "8" -> 8 [] c = "9" -> 9

Inputs ==
    { <<>>, <<"-">>, <<"a", "b">>, <<"1", ".", "5">>, <<"-", "5">>,
      <<"9">>, <<"1", "0">>, <<"5", "0">>, <<"5", "1">>, <<"+", "6", "0">>,
      <<"1", "0", "0", "0", "0", "0">>, <<"1", "0", "0", "0", "0", "1">> }

\* int(w) for a line of an optional sign and decimal digits; any other line
\* of Inputs raises ValueError.
Unsigned(w) == IF w # <<>> /\ w[1] \in {"-", "+"} THEN Tail(w) ELSE w
is_int(w) == Unsigned(w) # <<>> /\ \A k \in 1..Len(Unsigned(w)) : Unsigned(w)[k] \in Digit

RECURSIVE decimal(_, _)
decimal(w, k) == IF k = 0 THEN 0 ELSE 10 * decimal(w, k - 1) + DigitValue(w[k])

int(w) ==
    IF w[1] = "-" THEN -decimal(Unsigned(w), Len(Unsigned(w)))
    ELSE decimal(Unsigned(w), Len(Unsigned(w)))

\* The script before its first input.
MainInit ==
    /\ mpc = "input_maxpop"
    /\ maxpop = 0 /\ maxgen = 0
    /\ exitcode = 0
    /\ pop = 0 /\ generations = 0
    /\ pc = "idle"
    /\ Locals

corevars == <<pop, generations, p, n, gen, pc, i, avg, count, strong, sid,
              old, oid, mut, new, children, env, fittest, fitid, old_env,
              oldest, oldid, oldgen, stats, created,
                   birth, spawned>>

\* maxpop = int(input(...)); a ValueError prints and exits with 1.
ReadMaxpop ==
    /\ mpc = "input_maxpop"
    /\ \E w \in Inputs :
        IF is_int(w)
        THEN maxpop' = int(w) /\ mpc' = "input_maxgen" /\ UNCHANGED exitcode
        ELSE mpc' = "exit" /\ exitcode' = 1 /\ UNCHANGED maxpop
    /\ UNCHANGED maxgen
    /\ UNCHANGED corevars

\* maxgen = int(input(...)); a ValueError prints and exits with 1.
ReadMaxgen ==
    /\ mpc = "input_maxgen"
    /\ \E w \in Inputs :
        IF is_int(w)
        THEN maxgen' = int(w) /\ mpc' = "check_maxpop" /\ UNCHANGED exitcode
        ELSE mpc' = "exit" /\ exitcode' = 1 /\ UNCHANGED maxgen
    /\ UNCHANGED maxpop
    /\ UNCHANGED corevars

\* if (maxpop < 10): print, exit(1).
pop_rejected(x) == x < MinPop

CheckMaxpop ==
    /\ mpc = "check_maxpop"
    /\ IF pop_rejected(maxpop)
       THEN mpc' = "exit" /\ exitcode' = 1
       ELSE mpc' = "check_maxgen" /\ UNCHANGED exitcode
    /\ UNCHANGED <<maxpop, maxgen>>
    /\ UNCHANGED corevars

\* if (maxgen < 51): print, exit(1).
gen_rejected(x) == x < MinGenerations

CheckMaxgen ==
    /\ mpc = "check_maxgen"
    /\ IF gen_rejected(maxgen)
       THEN mpc' = "exit" /\ exitcode' = 1
       ELSE mpc' = "call" /\ UNCHANGED exitcode
    /\ UNCHANGED <<maxpop, maxgen>>
    /\ UNCHANGED corevars

\* simulate(maxpop, maxgen).
CallSimulate ==
    /\ mpc = "call"
    /\ mpc' = "simulate"
    /\ pop' = maxpop
    /\ generations' = maxgen
    /\ pc' = "initialize"
    /\ UNCHANGED <<maxpop, maxgen, exitcode>>
    /\ UNCHANGED <<p, n, gen, i, avg, count, strong, sid, old, oid, mut, new,
                   children, env, fittest, fitid, old_env, oldest, oldid,
                   oldgen, stats, created,
                   birth, spawned>>

MainNext ==
    \/ ReadMaxpop
    \/ ReadMaxgen
    \/ CheckMaxpop
    \/ CheckMaxgen
    \/ CallSimulate

\* The script main up to its call of simulate.
MainSpec == MainInit /\ [][MainNext]_vars

\* --------------------------------------------------- the pressure alone
\* pressure()'s first line for gen = 0, 1, ..., MaxPressureGen in turn.
PressureInit ==
    /\ mpc = "simulate"
    /\ maxpop = MinPop /\ maxgen = MinGenerations
    /\ exitcode = 0
    /\ pop = MinPop /\ generations = MinGenerations
    /\ pc = "pressure_of"
    /\ Locals

PressureOf ==
    /\ pc = "pressure_of" /\ gen < MaxPressureGen
    /\ gen' = gen + 1
    /\ env' = pressure_of(gen + 1)
    /\ UNCHANGED mainvars
    /\ UNCHANGED <<pop, generations, p, n, pc, i, avg, count, strong, sid,
                   old, oid, mut, new, children, fittest, fitid, old_env,
                   oldest, oldid, oldgen, stats, created,
                   birth, spawned>>

PressureNext == PressureOf

PressureSpec == PressureInit /\ [][PressureNext]_vars

\* ------------------------------------------------- initialize alone
\* initialize(pop) for pop = 0, ..., MaxInitSize, up to its return.
InitializeInit == InitOn((0..MaxInitSize) \X {MinGenerations})

InitializeNext ==
    \/ InitializeStep
    \/ InitializeReturn

InitializeSpec == InitializeInit /\ [][InitializeNext]_vars

\* ------------------------------------------------------------------ claims
\* The number of living individuals of a list.
Living(q) == Cardinality({k \in 1..Len(q) : q[k].l = "Alive"})

\* C1: the list has exactly pop slots once initialize has returned, at every
\* step of every respawn and pressure loop (and i slots while initialize
\* is filling it).
C1_SlotCount ==
    /\ pc = "initialize" => Len(p) = i
    /\ pc \notin {"idle", "initialize"} => Len(p) = pop

\* A later generation's pressure loop, after children were written, with a
\* Dead slot in the list.
C1_Witness ==
    /\ pc = "pressure" /\ gen >= 1 /\ spawned > 0
    /\ \E k \in 1..Len(p) : p[k].l = "Dead"

\* C2: the ids handed out are 0, 1, 2, ... in creation order, next id n is
\* the number of individuals created, and the individuals in the list carry
\* different ids, all handed out before.
C2_UniqueIds ==
    /\ Len(created) = n
    /\ \A k \in 1..Len(created) : created[k] = k - 1
    /\ \A k \in 1..Len(p) : p[k].id \in 0..(n - 1)
    /\ \A j, k \in 1..Len(p) : j # k => p[j].id # p[k].id

\* A run that ended after children were born.
C2_Witness == pc = "completed" /\ n > pop + 1

\* C3: the children written in a generation are at most twice the living
\* counted at its start.
C3_SpawnQuota ==
    pc \in {"reproduce", "pressure"} => spawned <= 2 * count

\* The quota is used up while a Dead slot is still ahead.
C3_Witness ==
    /\ pc = "reproduce" /\ spawned = 2 * count
    /\ \E k \in (i + 1)..pop : p[k].l = "Dead"

\* C4: every run ends, Extinct or Completed; the generation index stays
\* below the budget, and Completed comes after generation generations - 1.
C4_Terminates ==
    /\ [](gen < generations)
    /\ [](pc = "completed" => gen = generations - 1)
    /\ <>(pc \in {"extinct", "completed"})

\* A run of several generations that completed.
C4_Witness == pc = "completed" /\ generations > 1 /\ gen = generations - 1

C6_ExtinctOnlyWhenFew == pc = "extinct" => Living(p) <= 1

C8_NoDeathBelowOne ==
    [][(pc = "pressure" /\ i < pop /\ env - p[i + 1].s < Scale) =>
            /\ \A k \in Draws : ~Truthy(kill(env - p[i + 1].s, k))
            /\ p'[i + 1] = p[i + 1]]_vars

\* The pressure loop has passed a living slot that misses less than 1, and
\* one that misses nothing.
C8_Witness ==
    /\ pc = "pressure" /\ i >= 1 /\ p[i].l = "Alive"
    /\ 0 < env - p[i].s /\ env - p[i].s < Scale
    /\ fittest > 0

\* C9: the pressure of a generation is greater than that of the one before.
C9_PressureIncreasing == [][(pc = "pressure_of" /\ gen >= 0) => env' > env]_vars

\* The pressures up to the last generation were computed.
C9_Witness == pc = "pressure_of" /\ gen = MaxPressureGen /\ env > pressure_of(0)

\* C10: simulate is called only with 10 <= pop <= 100000 and
\* generations >= 51; every other input ends in exit(1).
C10_ValidatedInputs ==
    /\ mpc = "simulate" =>
        /\ MinPop <= pop /\ pop <= MaxPopMessage
        /\ generations >= MinGenerations
    /\ mpc = "exit" => exitcode = 1 /\ pc = "idle"

\* C11: the age of a living individual is the number of respawn loops run
\* since it was born: after the respawn loop of generation gen, gen minus the
\* generation of its birth (gen + 1 for the initial individuals).
C11_AgeCountsGenerations ==
    pc \in {"pressure", "for", "completed"} =>
        \A k \in 1..Len(p) :
            p[k].l = "Alive" => p[k].a = gen - birth[p[k].id + 1]

\* C12: in every step a slot that keeps its id keeps its power and does not
\* go from Dead to Alive, and a slot that changes its id gets the next id,
\* greater than the one it had; a round of the pressure loop changes at most the
\* status of its slot, to Dead; and a slot goes from Dead to Alive only in
\* the respawn loop, by a record with the next id and age 0.
C12_Lifecycle ==
    [][/\ \A k \in 1..Len(p) :
            /\ p'[k].id = p[k].id =>
                /\ p'[k].s = p[k].s
                /\ p[k].l = "Dead" => p'[k].l = "Dead"
            /\ p'[k].id # p[k].id => p'[k].id = n /\ p[k].id < n
       /\ pc = "pressure" =>
            /\ Len(p') = Len(p) /\ n' = n
            /\ \A k \in 1..Len(p) :
                /\ p'[k].id = p[k].id /\ p'[k].s = p[k].s /\ p'[k].a = p[k].a
                /\ p'[k].l # p[k].l => k = i + 1 /\ p'[k].l = "Dead"
       /\ \A k \in 1..Len(p) :
            (p[k].l = "Dead" /\ p'[k].l = "Alive") =>
                /\ pc = "reproduce" /\ k = i + 1
                /\ p'[k].id = n /\ n' = n + 1
                /\ \A j \in 1..Len(p) : p[j].id < n
                /\ p'[k].a = 0]_vars

\* A child has just been written over a Dead slot, and another individual
\* has died in an earlier pressure loop and is still in its slot.
C12_Witness ==
    /\ pc = "reproduce" /\ i >= 1 /\ spawned >= 1
    /\ p[i].id = n - 1 /\ p[i].a = 0 /\ p[i].l = "Alive"
    /\ \E k \in (i + 1)..pop : p[k].l = "Dead"

\* C13: no step lowers the recorded fittest margin or oldest age; the holder,
\* pressure and generation fields change only in a step that raises the
\* value they belong to, and then to the values of this generation; and only
\* the step after the generation's pressure loop changes any of them.
C13_RecordsMonotone ==
    [][/\ fittest' >= fittest /\ oldest' >= oldest
       /\ <<fitid', old_env'>> # <<fitid, old_env>> => fittest' > fittest
       /\ <<oldid', oldgen'>> # <<oldid, oldgen>> => oldest' > oldest
       /\ fittest' > fittest =>
            fittest' = strong - env /\ fitid' = sid /\ old_env' = env
       /\ oldest' > oldest => oldest' = old /\ oldid' = oid /\ oldgen' = gen
       /\ <<fittest', fitid', old_env', oldest', oldid', oldgen'>>
              # <<fittest, fitid, old_env, oldest, oldid, oldgen>> =>
            /\ pc = "pressure" /\ i = pop /\ pc' = "for"
            /\ gen' = gen /\ p' = p]_vars

\* Both records were replaced, the oldest age in two generations.
C13_Witness == pc = "for" /\ fittest > 0 /\ oldest >= 2 /\ oldgen >= 2

\* C14: the number of individuals born that the stats print is the number of
\* individuals created, on the Extinct and on the Completed path.
C14_BornCount ==
    pc \in {"extinct", "completed"} => stats.born = Len(created)

\* C15: when initialize(pop) has returned, the list holds pop individuals,
\* all Alive with age 0 and a power in [0, 5], slot k holding id k - 1, and
\* the next id is pop.
C15_Initialize ==
    (pc = "for" /\ gen = -1) =>
        /\ Len(p) = pop /\ n = pop
        /\ \A k \in 1..Len(p) :
            /\ p[k].l = "Alive" /\ p[k].a = 0 /\ p[k].id = k - 1
            /\ 0 <= p[k].s /\ p[k].s <= 5 * Scale

\* initialize has returned a list of the greatest size.
C15_Witness == pc = "for" /\ gen = -1 /\ pop = MaxInitSize /\ Len(p) = pop

Min(x, y) == IF x < y THEN x ELSE y

\* The slots that hold the last m ids handed out.
Newest(m) == {k \in 1..Len(p) : p[k].id >= n - m}

\* C16: when the respawn loop has ended, with count living and pop - count
\* Dead slots at its start, min(pop - count, 2 * count) children were
\* written, that is the number printed (2 * count less the quota left); they
\* lie before every slot that is still Dead, and min(pop, 3 * count)
\* individuals are living.
C16_Refill ==
    (pc = "pressure" /\ i = 0) =>
        LET m == Min(pop - count, 2 * count) IN
        /\ spawned = m /\ children = m /\ new = 2 * count - m
        /\ Cardinality(Newest(m)) = m
        /\ \A k \in Newest(m) : p[k].l = "Alive" /\ p[k].a = 0
        /\ \A k \in Newest(m) : \A d \in 1..Len(p) : p[d].l = "Dead" => k < d
        /\ Cardinality({d \in 1..Len(p) : p[d].l = "Dead"}) = pop - count - m
        /\ Living(p) = Min(pop, 3 * count)

\* The respawn loop has ended with the quota used up and a slot left Dead.
C16_Witness ==
    /\ pc = "pressure" /\ i = 0
    /\ pop - count > 2 * count /\ spawned = 2 * count
    /\ \E d \in 1..Len(p) : p[d].l = "Dead"

\* C17: for a missing fitness f > 0, kill returns True exactly when one of
\* the first int(f) ** 2 draws exceeds 0.6 and False when none does; from
\* int(f) >= 1 on both results occur; and one round of pressure sets the
\* individual Dead exactly when kill returned True, changing nothing else.
C17_KillIsAnyOfTrials ==
    [][(pc = "pressure" /\ i < pop) =>
        LET f == env - p[i + 1].s
            t == (f \div Scale) * (f \div Scale)
            hit(k) == f > 0 /\ 1 <= k /\ k <= t
        IN  /\ \A k \in Draws :
                /\ (kill(f, k) = "True") <=> hit(k)
                /\ f > 0 => ((kill(f, k) = "False") <=> ~hit(k))
            /\ f >= Scale =>
                /\ \E k \in Draws : kill(f, k) = "True"
                /\ \E k \in Draws : kill(f, k) = "False"
            /\ \E k \in Draws :
                p' = IF hit(k) THEN [p EXCEPT ![i + 1].l = "Dead"] ELSE p]_vars

\* In generation 0, where all were living, of two individuals that both miss
\* at least one point of fitness the first was killed and the second was not.
C17_Witness ==
    /\ pc = "pressure" /\ gen = 0 /\ i = 2
    /\ env - p[1].s >= Scale /\ env - p[2].s >= Scale
    /\ p[1].l = "Dead" /\ p[2].l = "Alive"

\* C18: the oldest age and its holder returned by print_living are the
\* greatest age among the living and the id of a living individual of that
\* age, and the record of the oldest ever never holds an age above the
\* generation it was taken in.
C18_OldestTruthful ==
    /\ pc = "mut" =>
        /\ \A k \in 1..Len(p) : p[k].l = "Alive" => p[k].a <= old
        /\ \E k \in 1..Len(p) :
            p[k].l = "Alive" /\ p[k].id = oid /\ p[k].a = old
    /\ pc # "initialize" => oldest <= oldgen

\* C19: when simulate has printed 'Population succeeded!', at least two
\* individuals are living after the pressure of the last generation.
C19_CompletedNotExtinct ==
    pc = "completed" => Living(p) >= MinLiving

====
